---- MODULE Spec2Model ----
(***************************************************************************)
(* Model of the Wasmtime waPC engine provider (src/src/lib.rs).            *)
(*                                                                         *)
(* A provider holds module bytecode and, after init, a host handle.  Every *)
(* call compiles the stored bytecode, binds the module's imports to host   *)
(* callbacks, instantiates, runs the bootstrap exports and invokes the     *)
(* guest entry point.  replace swaps the stored bytecode.                  *)
(***************************************************************************)
EXTENDS Integers, Sequences, FiniteSets, TLC

(***************************************************************************)
(* Bounds of the model.                                                    *)
(***************************************************************************)
\* longest import section of a module
MaxImports == 2
\* largest value of op_length and msg_length
MaxArg == 1

(***************************************************************************)
(* Names fixed by the waPC ABI (wapc::HOST_NAMESPACE, wapc::WapcFunctions) *)
(***************************************************************************)
HOST_NAMESPACE == "wapc"

HOST_CONSOLE_LOG == "__console_log"
HOST_CALL == "__host_call"
GUEST_REQUEST_FN == "__guest_request"
HOST_RESPONSE_FN == "__host_response"
HOST_RESPONSE_LEN_FN == "__host_response_len"
GUEST_RESPONSE_FN == "__guest_response"
GUEST_ERROR_FN == "__guest_error"
HOST_ERROR_FN == "__host_error"
HOST_ERROR_LEN_FN == "__host_error_len"
GUEST_CALL == "__guest_call"

REQUIRED_STARTS == <<"_start", "wapc_init">>

BridgingNames ==
    { HOST_CONSOLE_LOG, HOST_CALL, GUEST_REQUEST_FN, HOST_RESPONSE_FN,
      HOST_RESPONSE_LEN_FN, GUEST_RESPONSE_FN, GUEST_ERROR_FN, HOST_ERROR_FN,
      HOST_ERROR_LEN_FN }

(***************************************************************************)
(* Inputs.  A bytecode buffer is described by what the engine finds in it: *)
(* whether it compiles, its import section in declaration order, what each *)
(* bootstrap export does and what the entry point does.                    *)
(***************************************************************************)
Handles == {"h1", "h2"}

Args == 0..MaxArg

\* the import declarations a module of the model may contain
ImportDecls ==
    { [ty |-> "func",   module |-> "wapc", name |-> HOST_CALL],
      [ty |-> "func",   module |-> "wapc", name |-> HOST_CONSOLE_LOG],
      [ty |-> "func",   module |-> "wapc", name |-> "__bogus"],
      [ty |-> "func",   module |-> "env",  name |-> HOST_CALL],
      [ty |-> "memory", module |-> "wapc", name |-> "memory"],
      [ty |-> "memory", module |-> "env",  name |-> "memory"] }

ImportLists == UNION { [1..n -> ImportDecls] : n \in 0..MaxImports }

\* what an export named after a bootstrap initializer does when invoked
StartKinds == {"absent", "ok", "trap"}

\* what the export named __guest_call does when invoked
EntryKinds == {"absent", "trap", "one", "echo"}

Recognized(imp) ==
    imp.ty = "func" /\ imp.module = HOST_NAMESPACE /\ imp.name \in BridgingNames

AllRecognized(imports) == \A k \in 1..Len(imports) : Recognized(imports[k])

NoStarts == [s \in {REQUIRED_STARTS[1], REQUIRED_STARTS[2]} |-> "absent"]

InvalidBytes ==
    [valid |-> FALSE, imports |-> <<>>, starts |-> NoStarts, entry |-> "absent"]

\* Modules whose import section already stops instantiation are kept with one
\* export section: their exports are never looked at.
Bytecodes ==
    {InvalidBytes} \cup
    { [valid |-> TRUE, imports |-> il, starts |-> st, entry |-> e] :
        il \in { l \in ImportLists : AllRecognized(l) },
        st \in [{REQUIRED_STARTS[1], REQUIRED_STARTS[2]} -> StartKinds],
        e \in EntryKinds } \cup
    { [valid |-> TRUE, imports |-> il, starts |-> NoStarts, entry |-> "one"] :
        il \in { l \in ImportLists : ~AllRecognized(l) } }

(***************************************************************************)
(* State.                                                                  *)
(***************************************************************************)
VARIABLES
    host,              \* self.host: "None" or the handle given to init
    modbytes,          \* self.modbytes
    debug_assertions,  \* whether debug_assert! is compiled in
    written,           \* the buffer handed to the latest new / replace
    superseded,        \* whether a replace has overwritten a different buffer
    last               \* the latest operation and how it ended

\* self.wasidata is stored by new and read nowhere: it is not part of the state.
vars == <<host, modbytes, debug_assertions, written, superseded, last>>

(***************************************************************************)
(* Pure parts of the provider.                                             *)
(***************************************************************************)
Event(e, n) == [ev |-> e, name |-> n]

\* initialized answering for a provider that always has a host
initialized_always(h) == TRUE

\* self.host.is_some()
initialized(h) == h # "None"

\* Module::new(&engine, &self.modbytes): the compiled module, or no module
ModuleNew(bytes) ==
    IF bytes.valid
    THEN { [imports |-> bytes.imports, starts |-> bytes.starts,
            entry |-> bytes.entry] }
    ELSE {}

\* callback_for_import with the console-log arm lost
callback_without_console_log(import) ==
    CASE import = HOST_CALL -> "host_call_func"
      [] import = GUEST_REQUEST_FN -> "guest_request_func"
      [] import = HOST_RESPONSE_FN -> "host_response_func"
      [] import = HOST_RESPONSE_LEN_FN -> "host_response_len_func"
      [] import = GUEST_RESPONSE_FN -> "guest_response_func"
      [] import = GUEST_ERROR_FN -> "guest_error_func"
      [] import = HOST_ERROR_FN -> "host_error_func"
      [] import = HOST_ERROR_LEN_FN -> "host_error_len_func"
      [] OTHER -> "unreachable"

\* callback_for_import whose fall-through arm binds a do-nothing function
callback_defaulting(import) ==
    CASE import = HOST_CONSOLE_LOG -> "console_log_func"
      [] import = HOST_CALL -> "host_call_func"
      [] import = GUEST_REQUEST_FN -> "guest_request_func"
      [] import = HOST_RESPONSE_FN -> "host_response_func"
      [] import = HOST_RESPONSE_LEN_FN -> "host_response_len_func"
      [] import = GUEST_RESPONSE_FN -> "guest_response_func"
      [] import = GUEST_ERROR_FN -> "guest_error_func"
      [] import = HOST_ERROR_FN -> "host_error_func"
      [] import = HOST_ERROR_LEN_FN -> "host_error_len_func"
      [] OTHER -> "noop_func"

\* the host callback built for an import name; "unreachable" is the panic of
\* the fall-through arm
callback_for_import(import) ==
    CASE import = HOST_CONSOLE_LOG -> "console_log_func"
      [] import = HOST_CALL -> "host_call_func"
      [] import = GUEST_REQUEST_FN -> "guest_request_func"
      [] import = HOST_RESPONSE_FN -> "host_response_func"
      [] import = HOST_RESPONSE_LEN_FN -> "host_response_len_func"
      [] import = GUEST_RESPONSE_FN -> "guest_response_func"
      [] import = GUEST_ERROR_FN -> "guest_error_func"
      [] import = HOST_ERROR_FN -> "host_error_func"
      [] import = HOST_ERROR_LEN_FN -> "host_error_len_func"
      [] OTHER -> "unreachable"

\* one step of the filter_map closure over module.imports(), from import k on
RECURSIVE ArrangeFrom(_, _, _)
ArrangeFrom(imports, k, acc) ==
    IF k > Len(imports)
    THEN [out |-> "Ok", why |-> "", list |-> acc]
    ELSE LET imp == imports[k] IN
         IF imp.ty = "func"
         THEN IF imp.module = HOST_NAMESPACE
              THEN LET cb == callback_for_import(imp.name) IN
                   IF cb = "unreachable"
                   THEN [out |-> "panic", why |-> "unreachable", list |-> acc]
                   ELSE ArrangeFrom(imports, k + 1, Append(acc, cb))
              ELSE [out |-> "panic", why |-> "import_module_not_found",
                    list |-> acc]
         ELSE ArrangeFrom(imports, k + 1, acc)

\* arrange_imports skipping, not refusing, a function import of another
\* namespace
RECURSIVE ArrangeSkippingForeign(_, _, _)
ArrangeSkippingForeign(imports, k, acc) ==
    IF k > Len(imports)
    THEN [out |-> "Ok", why |-> "", list |-> acc]
    ELSE LET imp == imports[k] IN
         IF imp.ty = "func" /\ imp.module = HOST_NAMESPACE
         THEN LET cb == callback_for_import(imp.name) IN
              IF cb = "unreachable"
              THEN [out |-> "panic", why |-> "unreachable", list |-> acc]
              ELSE ArrangeSkippingForeign(imports, k + 1, Append(acc, cb))
         ELSE ArrangeSkippingForeign(imports, k + 1, acc)

arrange_imports_skipping_foreign(module) ==
    ArrangeSkippingForeign(module.imports, 1, <<>>)

\* the order in which callback_for_import lists the nine names
BridgingOrder ==
    << HOST_CONSOLE_LOG, HOST_CALL, GUEST_REQUEST_FN, HOST_RESPONSE_FN,
       HOST_RESPONSE_LEN_FN, GUEST_RESPONSE_FN, GUEST_ERROR_FN, HOST_ERROR_FN,
       HOST_ERROR_LEN_FN >>

\* arrange_imports building the list name by name in the order of its own
\* match arms instead of the module's import order
arrange_imports_in_fixed_order(module) ==
    LET r == ArrangeFrom(module.imports, 1, <<>>)
        bound == {r.list[k] : k \in 1..Len(r.list)}
        all == [k \in 1..Len(BridgingOrder) |->
                   callback_for_import(BridgingOrder[k])]
    IN [r EXCEPT !.list = SelectSeq(all, LAMBDA cb : cb \in bound)]

arrange_imports(module) == ArrangeFrom(module.imports, 1, <<>>)

\* wasmtime::Instance::new(&store, &module, imports): the externs are taken
\* positionally against the module's imports, and every extern handed over
\* here is a function
InstanceNew(module, externs) ==
    /\ Len(externs) = Len(module.imports)
    /\ \A k \in 1..Len(externs) : module.imports[k].ty = "func"

\* the loop over REQUIRED_STARTS, from starter k on
RECURSIVE InitializeFrom(_, _, _)
InitializeFrom(module, k, trace) ==
    IF k > Len(REQUIRED_STARTS)
    THEN [out |-> "Ok", trace |-> trace]
    ELSE LET starter == REQUIRED_STARTS[k] IN
         IF module.starts[starter] # "absent"
         THEN LET t == Append(trace, Event("start", starter)) IN
              IF module.starts[starter] = "trap"
              THEN [out |-> "Err", trace |-> t]
              ELSE InitializeFrom(module, k + 1, t)
         ELSE InitializeFrom(module, k + 1, trace)

\* initialize going through REQUIRED_STARTS from the last name to the first
RECURSIVE InitializeBackFrom(_, _, _)
InitializeBackFrom(module, k, trace) ==
    IF k < 1
    THEN [out |-> "Ok", trace |-> trace]
    ELSE LET starter == REQUIRED_STARTS[k] IN
         IF module.starts[starter] # "absent"
         THEN LET t == Append(trace, Event("start", starter)) IN
              IF module.starts[starter] = "trap"
              THEN [out |-> "Err", trace |-> t]
              ELSE InitializeBackFrom(module, k - 1, t)
         ELSE InitializeBackFrom(module, k - 1, trace)

initialize_backwards(module, trace) ==
    InitializeBackFrom(module, Len(REQUIRED_STARTS), trace)

\* initialize logging a starter's trap and carrying on, as call! does
RECURSIVE InitializeSwallowingFrom(_, _, _)
InitializeSwallowingFrom(module, k, trace) ==
    IF k > Len(REQUIRED_STARTS)
    THEN [out |-> "Ok", trace |-> trace]
    ELSE LET starter == REQUIRED_STARTS[k] IN
         IF module.starts[starter] # "absent"
         THEN InitializeSwallowingFrom(module, k + 1,
                                       Append(trace, Event("start", starter)))
         ELSE InitializeSwallowingFrom(module, k + 1, trace)

initialize_swallowing_traps(module, trace) ==
    InitializeSwallowingFrom(module, 1, trace)

\* initialize running no starter
initialize_nothing(module, trace) == [out |-> "Ok", trace |-> trace]

initialize(module, trace) == InitializeFrom(module, 1, trace)

\* the outcome of an operation
Outcome(o, w, r, c, i, inst, t) ==
    [out |-> o, why |-> w, ret |-> r, compiled |-> c, imports |-> i,
     instance |-> inst, trace |-> t]

Plain(o, w) == Outcome(o, w, 0, {}, <<>>, FALSE, <<>>)

\* instantiate handing back an instance kept from an earlier call instead of
\* building one
instantiate_reusing(h, bytes, dbg) ==
    IF dbg /\ ~initialized(h) THEN Plain("panic", "debug_assert")
    ELSE IF ~initialized(h) THEN Plain("panic", "unwrap_none")
    ELSE Outcome("Ok", "", 0, {}, <<>>, TRUE, <<>>)

\* self.instantiate()
instantiate(h, bytes, dbg) ==
    IF dbg /\ ~initialized(h) THEN Plain("panic", "debug_assert")
    ELSE IF ~initialized(h) THEN Plain("panic", "unwrap_none")
    ELSE
    LET compiled == ModuleNew(bytes)
        t1 == <<Event("compile", "")>>
    IN
    IF compiled = {}
    THEN Outcome("panic", "module_compile", 0, {bytes}, <<>>, FALSE, t1)
    ELSE
    LET module == CHOOSE m \in compiled : TRUE
        imports == arrange_imports(module)
        t2 == Append(t1, Event("arrange_imports", ""))
    IN
    IF imports.out = "panic"
    THEN Outcome("panic", imports.why, 0, {bytes}, imports.list, FALSE, t2)
    ELSE
    LET t3 == Append(t2, Event("Instance::new", "")) IN
    IF ~InstanceNew(module, imports.list)
    THEN Outcome("panic", "instance_new", 0, {bytes}, imports.list, FALSE, t3)
    ELSE
    LET started == initialize(module, t3) IN
    Outcome(started.out, IF started.out = "Err" THEN "start_trap" ELSE "",
            0, {bytes}, imports.list, TRUE, started.trace)

\* guest_call_fn taking the export for granted
guest_call_fn_unchecked(bytes) == TRUE

\* guest_call_fn(&instance): whether the instance exports __guest_call
guest_call_fn(bytes) == bytes.entry # "absent"

\* what the guest's entry point does with its two arguments
GuestCall(bytes, op_length, msg_length) ==
    CASE bytes.entry = "one" -> [trapped |-> FALSE, result |-> 1]
      [] bytes.entry = "echo" -> [trapped |-> FALSE, result |-> op_length]
      [] OTHER -> [trapped |-> TRUE, result |-> 0]

\* the call! macro handing the engine's error on instead of 0
CallMacroPropagating(bytes, op_length, msg_length) ==
    LET r == GuestCall(bytes, op_length, msg_length) IN
    IF r.trapped
    THEN [out |-> "Err", why |-> "guest_trap", ret |-> 0]
    ELSE [out |-> "Ok", why |-> "", ret |-> r.result]

\* the call! macro applied to the entry point: Ok(result) gives the result,
\* Err(e) is logged and gives 0
CallMacro(bytes, op_length, msg_length) ==
    LET r == GuestCall(bytes, op_length, msg_length) IN
    IF r.trapped
    THEN [out |-> "Ok", why |-> "", ret |-> 0]
    ELSE [out |-> "Ok", why |-> "", ret |-> r.result]

\* WasmtimeEngineProvider::call
CallOutcome(h, bytes, dbg, op_length, msg_length) ==
    IF dbg /\ ~initialized(h) THEN Plain("panic", "debug_assert")
    ELSE
    LET inst == instantiate(h, bytes, dbg) IN
    IF inst.out # "Ok" THEN inst
    ELSE
    LET t1 == Append(inst.trace, Event("get_func", GUEST_CALL)) IN
    IF ~guest_call_fn(bytes)
    THEN [inst EXCEPT !.out = "Err", !.why = "missing_guest_call",
                      !.trace = t1]
    ELSE LET callresult == CallMacro(bytes, op_length, msg_length) IN
         [inst EXCEPT !.out = callresult.out, !.why = callresult.why,
                      !.ret = callresult.ret,
                      !.trace = Append(t1, Event("entry", GUEST_CALL))]

(***************************************************************************)
(* Operations.                                                             *)
(***************************************************************************)
Done(op, outcome) == [op |-> op] @@ outcome

\* WasmtimeEngineProvider::new
Init ==
    /\ host = "None"
    /\ modbytes \in Bytecodes
    /\ debug_assertions \in BOOLEAN
    /\ written = modbytes
    /\ superseded = FALSE
    /\ last = Done("new", Plain("Ok", ""))

\* a panic unwinds out of the provider: nothing is run on it afterwards
Running == last.out # "panic"

init(h) ==
    /\ Running
    /\ IF debug_assertions /\ initialized(host)
       THEN /\ last' = Done("init", Plain("panic", "debug_assert"))
            /\ UNCHANGED host
       ELSE /\ host' = h
            /\ last' = Done("init", Plain("Ok", ""))
    /\ UNCHANGED <<modbytes, debug_assertions, written, superseded>>

\* call moving the bytes out of self.modbytes to compile them
call_taking_bytes(op_length, msg_length) ==
    /\ Running
    /\ last' = Done("call", CallOutcome(host, modbytes, debug_assertions,
                                        op_length, msg_length))
    /\ modbytes' = IF initialized(host) THEN InvalidBytes ELSE modbytes
    /\ UNCHANGED <<host, debug_assertions, written, superseded>>

call(op_length, msg_length) ==
    /\ Running
    /\ last' = Done("call", CallOutcome(host, modbytes, debug_assertions,
                                        op_length, msg_length))
    /\ UNCHANGED <<host, modbytes, debug_assertions, written, superseded>>

\* replace without its debug_assert!
replace_unasserted(module) ==
    /\ Running
    /\ modbytes' = module
    /\ written' = module
    /\ superseded' = (superseded \/ module # modbytes)
    /\ last' = Done("replace", Plain("Ok", ""))
    /\ UNCHANGED <<host, debug_assertions>>

\* replace that acknowledges the buffer without storing it
replace_keeping_old(module) ==
    /\ Running
    /\ IF debug_assertions /\ ~initialized(host)
       THEN /\ last' = Done("replace", Plain("panic", "debug_assert"))
            /\ UNCHANGED <<modbytes, written, superseded>>
       ELSE /\ modbytes' = modbytes
            /\ written' = module
            /\ superseded' = (superseded \/ module # modbytes)
            /\ last' = Done("replace", Plain("Ok", ""))
    /\ UNCHANGED <<host, debug_assertions>>

replace(module) ==
    /\ Running
    /\ IF debug_assertions /\ ~initialized(host)
       THEN /\ last' = Done("replace", Plain("panic", "debug_assert"))
            /\ UNCHANGED <<modbytes, written, superseded>>
       ELSE /\ modbytes' = module
            /\ written' = module
            /\ superseded' = (superseded \/ module # modbytes)
            /\ last' = Done("replace", Plain("Ok", ""))
    /\ UNCHANGED <<host, debug_assertions>>

Next ==
    \/ \E h \in Handles : init(h)
    \/ \E op_length \in Args, msg_length \in Args : call(op_length, msg_length)
    \/ \E module \in Bytecodes : replace(module)

Spec == Init /\ [][Next]_vars

(***************************************************************************)
(* The same provider with call taken one statement at a time.  call, init  *)
(* and replace all take `&mut self`: while a call is running it holds the  *)
(* only borrow of the provider, so neither init nor replace can start      *)
(* before it returns.  The locals of the running call (module, imports,    *)
(* instance) are kept in `last`, whose `out` is "running" until it ends.   *)
(***************************************************************************)
\* buffers handed to the provider when calls are followed statement by
\* statement
StepBytecodes == { b \in Bytecodes : Len(b.imports) <= 1 }

InFlight == last.op = "call" /\ last.out = "running"

\* the statement the running call has reached: the last thing it did
Stage ==
    IF last.trace = <<>> THEN "begin" ELSE last.trace[Len(last.trace)].ev

\* the local `module` of instantiate
LocalModule ==
    CHOOSE m \in UNION { ModuleNew(b) : b \in last.compiled } : TRUE

\* call up to `let host = self.host.as_ref().unwrap().clone()`
call_begin(op_length, msg_length) ==
    /\ Running
    /\ ~InFlight
    /\ last' =
         IF debug_assertions /\ ~initialized(host)
         THEN Done("call", Plain("panic", "debug_assert"))
         ELSE IF ~initialized(host)
         THEN Done("call", Plain("panic", "unwrap_none"))
         ELSE Done("call", Plain("running", ""))
                @@ [op_length |-> op_length, msg_length |-> msg_length]
    /\ UNCHANGED <<host, modbytes, debug_assertions, written, superseded>>

\* Module::new(&engine, &self.modbytes).unwrap(): the one read of modbytes
compile_step ==
    /\ InFlight
    /\ Stage = "begin"
    /\ last' =
         [last EXCEPT
            !.compiled = {modbytes},
            !.trace = Append(@, Event("compile", "")),
            !.out = IF ModuleNew(modbytes) = {} THEN "panic" ELSE @,
            !.why = IF ModuleNew(modbytes) = {} THEN "module_compile" ELSE @]
    /\ UNCHANGED <<host, modbytes, debug_assertions, written, superseded>>

\* arrange_imports(&module, host, store.clone())
arrange_step ==
    /\ InFlight
    /\ Stage = "compile"
    /\ LET imports == arrange_imports(LocalModule) IN
       last' =
         [last EXCEPT
            !.imports = imports.list,
            !.trace = Append(@, Event("arrange_imports", "")),
            !.out = IF imports.out = "panic" THEN "panic" ELSE @,
            !.why = IF imports.out = "panic" THEN imports.why ELSE @]
    /\ UNCHANGED <<host, modbytes, debug_assertions, written, superseded>>

\* wasmtime::Instance::new(&store, &module, imports?.as_slice()).unwrap()
instance_step ==
    /\ InFlight
    /\ Stage = "arrange_imports"
    /\ LET ok == InstanceNew(LocalModule, last.imports) IN
       last' =
         [last EXCEPT
            !.instance = ok,
            !.trace = Append(@, Event("Instance::new", "")),
            !.out = IF ok THEN @ ELSE "panic",
            !.why = IF ok THEN @ ELSE "instance_new"]
    /\ UNCHANGED <<host, modbytes, debug_assertions, written, superseded>>

\* initialize(&instance)?
initialize_step ==
    /\ InFlight
    /\ Stage = "Instance::new"
    /\ LET started == initialize(LocalModule, last.trace) IN
       last' =
         [last EXCEPT
            !.trace = IF started.out = "Ok"
                      THEN Append(started.trace, Event("initialized", ""))
                      ELSE started.trace,
            !.out = IF started.out = "Ok" THEN @ ELSE "Err",
            !.why = IF started.out = "Ok" THEN @ ELSE "start_trap"]
    /\ UNCHANGED <<host, modbytes, debug_assertions, written, superseded>>

\* guest_call_fn(&instance)?
lookup_step ==
    /\ InFlight
    /\ Stage = "initialized"
    /\ LET found == guest_call_fn(LocalModule) IN
       last' =
         [last EXCEPT
            !.trace = Append(@, Event("get_func", GUEST_CALL)),
            !.out = IF found THEN @ ELSE "Err",
            !.why = IF found THEN @ ELSE "missing_guest_call"]
    /\ UNCHANGED <<host, modbytes, debug_assertions, written, superseded>>

\* call!(guest_call_fn, op_length, msg_length) and Ok(callresult)
entry_step ==
    /\ InFlight
    /\ Stage = "get_func"
    /\ LET callresult ==
             CallMacro(LocalModule, last.op_length, last.msg_length)
       IN
       last' =
         [last EXCEPT
            !.trace = Append(@, Event("entry", GUEST_CALL)),
            !.out = callresult.out,
            !.why = callresult.why,
            !.ret = callresult.ret]
    /\ UNCHANGED <<host, modbytes, debug_assertions, written, superseded>>

\* init, which needs the borrow a running call holds
init_exclusive(h) == ~InFlight /\ init(h)

\* replace through a shared reference: it may run while a call is still
\* running, whose locals it leaves alone
replace_unsynchronized(module) ==
    \/ ~InFlight /\ replace(module)
    \/ /\ InFlight
       /\ modbytes' = module
       /\ written' = module
       /\ superseded' = (superseded \/ module # modbytes)
       /\ UNCHANGED <<host, debug_assertions, last>>

\* replace, which needs the borrow a running call holds
replace_exclusive(module) == ~InFlight /\ replace(module)

InitSteps ==
    /\ host = "None"
    /\ modbytes \in StepBytecodes
    /\ debug_assertions \in BOOLEAN
    /\ written = modbytes
    /\ superseded = FALSE
    /\ last = Done("new", Plain("Ok", ""))

NextSteps ==
    \/ \E h \in Handles : init_exclusive(h)
    \/ \E module \in StepBytecodes : replace_exclusive(module)
    \/ \E op_length \in Args, msg_length \in Args :
          call_begin(op_length, msg_length)
    \/ compile_step
    \/ arrange_step
    \/ instance_step
    \/ initialize_step
    \/ lookup_step
    \/ entry_step

SpecSteps == InitSteps /\ [][NextSteps]_vars

(***************************************************************************)
(* The import binder on its own: arrange_imports applied to the import     *)
(* section of a compiled module, over all nine bridging names.             *)
(***************************************************************************)
\* longest import section handed to the binder on its own
MaxBinderImports == 3

BinderDecls ==
    { [ty |-> "func", module |-> HOST_NAMESPACE, name |-> n] :
        n \in BridgingNames } \cup
    { [ty |-> "func",   module |-> "wapc", name |-> "__bogus"],
      [ty |-> "func",   module |-> "env",  name |-> HOST_CALL],
      [ty |-> "memory", module |-> "wapc", name |-> "memory"] }

BinderBytecodes ==
    { [valid |-> TRUE, imports |-> il, starts |-> NoStarts, entry |-> "one"] :
        il \in UNION { [1..n -> BinderDecls] : n \in 0..MaxBinderImports } }

InitBinder ==
    /\ host \in Handles
    /\ modbytes \in BinderBytecodes
    /\ debug_assertions \in BOOLEAN
    /\ written = modbytes
    /\ superseded = FALSE
    /\ last = Done("new", Plain("Ok", ""))

\* arrange_imports(&module, host, store.clone()) on the compiled module
bind ==
    /\ last.op = "new"
    /\ LET module == CHOOSE m \in ModuleNew(modbytes) : TRUE
           imports == arrange_imports(module)
       IN last' = Done("arrange_imports",
                       Outcome(imports.out, imports.why, 0, {modbytes},
                               imports.list, FALSE,
                               <<Event("arrange_imports", "")>>))
    /\ UNCHANGED <<host, modbytes, debug_assertions, written, superseded>>

NextBinder == bind

SpecBinder == InitBinder /\ [][NextBinder]_vars

TypeOK ==
    /\ host \in {"None"} \cup Handles
    /\ modbytes \in Bytecodes
    /\ last.out \in {"Ok", "Err", "panic"}

(***************************************************************************)
(* Vocabulary of the properties.                                           *)
(***************************************************************************)
Starters == {REQUIRED_STARTS[k] : k \in 1..Len(REQUIRED_STARTS)}

\* positions of an event in the latest operation's trace
At(ev, name) == {i \in 1..Len(last.trace) : last.trace[i] = Event(ev, name)}

Happened(ev, name) == At(ev, name) # {}

FuncImports(imports) == {k \in 1..Len(imports) : imports[k].ty = "func"}

ForeignFuncImports(imports) ==
    {k \in FuncImports(imports) : imports[k].module # HOST_NAMESPACE}

\* a module that compiles and imports nothing but bridging functions of the
\* host namespace
OnlyRecognizedImports(b) == b.valid /\ AllRecognized(b.imports)

BootstrapClean(b) == \A s \in Starters : b.starts[s] # "trap"

\* a call made on an initialized provider
CalledInitialized == last.op = "call" /\ initialized(host)

(***************************************************************************)
(* C1: every call compiles, binds, bootstraps and enters the bytecode      *)
(* written by the most recent new / replace, never an earlier buffer.      *)
(***************************************************************************)
C1_CallRunsLatestBytecode ==
    CalledInitialized =>
        /\ last.compiled = {written}
        /\ last.instance =>
              /\ Len(last.imports) = Len(written.imports)
              /\ \A k \in 1..Len(last.imports) :
                    last.imports[k] = callback_for_import(written.imports[k].name)
        /\ \A i \in 1..Len(last.trace) :
              last.trace[i].ev = "start" =>
                  written.starts[last.trace[i].name] # "absent"
        /\ Happened("entry", GUEST_CALL) =>
              /\ written.entry # "absent"
              /\ written.entry = "one" => last.ret = 1
              /\ written.entry = "trap" => last.ret = 0

C1_Witness ==
    /\ CalledInitialized
    /\ superseded
    /\ last.out = "Ok"
    /\ last.ret = 1
    /\ Len(last.imports) = 2
    /\ Happened("start", "wapc_init")
    /\ Happened("entry", GUEST_CALL)

(***************************************************************************)
(* C2: when the entry point traps after a successful instantiation and     *)
(* bootstrap, call returns Ok(0) whatever the two arguments are.           *)
(***************************************************************************)
C2_TrapGivesSentinel ==
    ( /\ CalledInitialized
      /\ OnlyRecognizedImports(modbytes)
      /\ BootstrapClean(modbytes)
      /\ modbytes.entry = "trap" )
    => /\ last.out = "Ok"
       /\ last.ret = 0
       /\ Happened("entry", GUEST_CALL)

C2_Witness ==
    /\ CalledInitialized
    /\ OnlyRecognizedImports(modbytes)
    /\ BootstrapClean(modbytes)
    /\ modbytes.entry = "trap"
    /\ modbytes.imports # <<>>
    /\ last.out = "Ok"
    /\ last.ret = 0

(***************************************************************************)
(* C3: for a module without the __guest_call export no call returns an     *)
(* integer and none invokes an entry point; when instantiation and         *)
(* bootstrap succeed the call returns the missing-entry-point error.       *)
(***************************************************************************)
C3_MissingEntryIsError ==
    (last.op = "call" /\ modbytes.entry = "absent") =>
        /\ last.out # "Ok"
        /\ ~Happened("entry", GUEST_CALL)
        /\ ( /\ initialized(host)
             /\ OnlyRecognizedImports(modbytes)
             /\ BootstrapClean(modbytes) )
           => (last.out = "Err" /\ last.why = "missing_guest_call")

C3_Witness ==
    /\ CalledInitialized
    /\ OnlyRecognizedImports(modbytes)
    /\ modbytes.entry = "absent"
    /\ Happened("start", "_start")
    /\ last.out = "Err"
    /\ last.why = "missing_guest_call"

(***************************************************************************)
(* C4: when the binder is run on a module with a function import of a      *)
(* namespace other than the host namespace it fails with a configuration   *)
(* failure, and nothing later happens: no Instance::new, no instance, no   *)
(* starter, no entry point.                                                *)
(***************************************************************************)
ConfigurationFailures == {"import_module_not_found", "unreachable"}

C4_ForeignNamespaceFailsBeforeInstantiation ==
    ( /\ CalledInitialized
      /\ modbytes.valid
      /\ ForeignFuncImports(modbytes.imports) # {} )
    => /\ Happened("arrange_imports", "")
       /\ last.out = "panic"
       /\ last.why \in ConfigurationFailures
       /\ ~last.instance
       /\ ~Happened("Instance::new", "")
       /\ \A i \in 1..Len(last.trace) : last.trace[i].ev \notin {"start", "entry"}

C4_Witness ==
    /\ CalledInitialized
    /\ modbytes.valid
    /\ Len(modbytes.imports) = 2
    /\ ForeignFuncImports(modbytes.imports) = {2}
    /\ Len(last.imports) = 1
    /\ last.out = "panic"
    /\ last.why = "import_module_not_found"

(***************************************************************************)
(* C5: for a valid module whose imports are all bridging functions of the  *)
(* host namespace, Instance::new succeeds on a binding list as long as the *)
(* module's function-import count.                                         *)
(***************************************************************************)
C5_RecognizedImportsInstantiate ==
    (CalledInitialized /\ OnlyRecognizedImports(modbytes)) =>
        /\ last.instance
        /\ Happened("Instance::new", "")
        /\ Len(last.imports) = Cardinality(FuncImports(modbytes.imports))
        /\ last.out # "panic"

C5_Witness ==
    /\ CalledInitialized
    /\ OnlyRecognizedImports(modbytes)
    /\ Cardinality(FuncImports(modbytes.imports)) = 2
    /\ modbytes.imports[1] # modbytes.imports[2]
    /\ last.instance
    /\ Len(last.imports) = 2

(***************************************************************************)
(* C6: in a call whose instantiation completes, every starter the module   *)
(* exports has run exactly once, and before the entry point; no starter    *)
(* ever runs twice in a call, and the entry point runs only after a        *)
(* bootstrap in which no starter trapped.                                  *)
(***************************************************************************)
C6_BootstrapOnceBeforeEntry ==
    last.op = "call" =>
        /\ \A s \in Starters : Cardinality(At("start", s)) <= 1
        /\ \A s \in Starters :
              (modbytes.starts[s] = "absent") => At("start", s) = {}
        /\ Happened("get_func", GUEST_CALL) =>
              \A s \in Starters :
                  modbytes.starts[s] # "absent" =>
                      /\ Cardinality(At("start", s)) = 1
                      /\ \A i \in At("start", s), j \in At("get_func", GUEST_CALL) :
                            i < j
        /\ Happened("entry", GUEST_CALL) =>
              /\ BootstrapClean(modbytes)
              /\ \A s \in Starters :
                    modbytes.starts[s] # "absent" =>
                        \A i \in At("start", s), j \in At("entry", GUEST_CALL) :
                            i < j

C6_Witness ==
    /\ last.op = "call"
    /\ \A s \in Starters : modbytes.starts[s] = "ok"
    /\ Happened("entry", GUEST_CALL)
    /\ \A s \in Starters : Cardinality(At("start", s)) = 1

(***************************************************************************)
(* C7: once the host handle is set, no operation clears it or puts another *)
(* handle in its place.                                                    *)
(***************************************************************************)
C7_HostHandleNeverChanges == [][initialized(host) => host' = host]_vars

(***************************************************************************)
(* C8: a replace given bytes that do not compile returns an error and      *)
(* leaves the stored bytecode and the host handle as they were.            *)
(***************************************************************************)
C8_FailedSwapLeavesState ==
    [][ (initialized(host) /\ replace(InvalidBytes)) =>
            (last'.out = "Err" /\ modbytes' = modbytes /\ host' = host) ]_vars

(***************************************************************************)
(* C9: when the stored bytes are not a valid module, the operation that    *)
(* compiles them returns a compilation error: it neither panics nor        *)
(* succeeds.                                                               *)
(***************************************************************************)
C9_InvalidBytesGiveTypedError ==
    (CalledInitialized /\ ~modbytes.valid) =>
        (last.out = "Err" /\ last.why = "module_compile")

FuncImportSeq(imports) == SelectSeq(imports, LAMBDA imp : imp.ty = "func")

C13_BindingsFollowImportOrder ==
    (last.op = "arrange_imports" /\ last.out = "Ok") =>
        LET funcs == FuncImportSeq(modbytes.imports) IN
        /\ Len(last.imports) = Len(funcs)
        /\ \A k \in 1..Len(funcs) :
              /\ funcs[k].name \in BridgingNames
              /\ last.imports[k] = callback_for_import(funcs[k].name)
              /\ last.imports[k] # "unreachable"

C13_Witness ==
    /\ last.op = "arrange_imports"
    /\ last.out = "Ok"
    /\ modbytes.imports =
         << [ty |-> "func", module |-> "wapc", name |-> HOST_ERROR_LEN_FN],
            [ty |-> "func", module |-> "wapc", name |-> HOST_CALL],
            [ty |-> "func", module |-> "wapc", name |-> HOST_CONSOLE_LOG] >>
    /\ last.imports =
         <<"host_error_len_func", "host_call_func", "console_log_func">>

(***************************************************************************)
(* C14: imports that are not functions add nothing to the binding list and *)
(* do not get the module refused, neither by the binder nor by the         *)
(* Instance::new that takes the list.                                      *)
(***************************************************************************)
NonFuncImports(imports) == {k \in 1..Len(imports) : imports[k].ty # "func"}

C14_NonFunctionImportsSkipped ==
    ( /\ CalledInitialized
      /\ modbytes.valid
      /\ NonFuncImports(modbytes.imports) # {}
      /\ \A k \in FuncImports(modbytes.imports) : Recognized(modbytes.imports[k]) )
    => /\ Len(last.imports) = Cardinality(FuncImports(modbytes.imports))
       /\ last.out # "panic"
       /\ last.instance

(***************************************************************************)
(* C15: a function import of the host namespace whose name is none of the  *)
(* nine bridging names makes the binder fail: no binding list comes back   *)
(* with that import left out or bound to something, and no instance is     *)
(* built.                                                                  *)
(***************************************************************************)
UnknownHostImports(imports) ==
    {k \in FuncImports(imports) :
        /\ imports[k].module = HOST_NAMESPACE
        /\ imports[k].name \notin BridgingNames}

C15_UnknownHostImportFailsFast ==
    ( /\ CalledInitialized
      /\ modbytes.valid
      /\ UnknownHostImports(modbytes.imports) # {} )
    => /\ last.out = "panic"
       /\ last.why \in ConfigurationFailures
       /\ ~last.instance
       /\ ~Happened("Instance::new", "")
       /\ \A k \in UnknownHostImports(modbytes.imports) :
             Len(last.imports) < k
       /\ \A i \in 1..Len(last.trace) :
             last.trace[i].ev \notin {"start", "get_func", "entry"}

C15_Witness ==
    /\ CalledInitialized
    /\ modbytes.valid
    /\ Len(modbytes.imports) = 2
    /\ UnknownHostImports(modbytes.imports) = {2}
    /\ Recognized(modbytes.imports[1])
    /\ last.out = "panic"
    /\ last.why = "unreachable"
    /\ Len(last.imports) = 1

(***************************************************************************)
(* C16: the bootstrap invokes the starters the instance exports in the     *)
(* order of REQUIRED_STARTS, skipping an absent one without error; it runs *)
(* all of them unless one traps, which ends it.                            *)
(***************************************************************************)
\* the names of the starters invoked in the latest operation, in order
StartsRun ==
    LET starts == SelectSeq(last.trace, LAMBDA e : e.ev = "start")
    IN [i \in 1..Len(starts) |-> starts[i].name]

\* the starters a module exports, in the order of REQUIRED_STARTS
StartsExported(b) == SelectSeq(REQUIRED_STARTS, LAMBDA s : b.starts[s] # "absent")

C16_StartersRunInDefinedOrder ==
    (last.op = "call" /\ last.instance) =>
        LET due == StartsExported(modbytes) IN
        /\ Len(StartsRun) <= Len(due)
        /\ \A i \in 1..Len(StartsRun) : StartsRun[i] = due[i]
        /\ BootstrapClean(modbytes) =>
              /\ StartsRun = due
              /\ last.why # "start_trap"
              /\ Happened("get_func", GUEST_CALL)
        /\ \A i \in 1..Len(due) :
              (\A j \in 1..(i - 1) : modbytes.starts[due[j]] = "ok") =>
                  (i <= Len(StartsRun))

C16_Witness ==
    /\ last.op = "call"
    /\ last.instance
    /\ modbytes.starts["_start"] = "ok"
    /\ modbytes.starts["wapc_init"] = "ok"
    /\ StartsRun = REQUIRED_STARTS
    /\ last.out = "Ok"

C16_WitnessAbsentSkipped ==
    /\ last.op = "call"
    /\ last.instance
    /\ modbytes.starts["_start"] = "absent"
    /\ modbytes.starts["wapc_init"] = "ok"
    /\ StartsRun = <<"wapc_init">>
    /\ last.out = "Ok"

(***************************************************************************)
(* C17: only replace writes the stored bytecode: a call, however it ends,  *)
(* leaves the bytecode and the host handle as they were, init leaves the   *)
(* bytecode as it was, and replace leaves the host handle as it was.       *)
(***************************************************************************)
C17_OnlyReplaceWritesBytecode ==
    [][ /\ last'.op = "call" => (modbytes' = modbytes /\ host' = host)
        /\ last'.op = "init" => modbytes' = modbytes
        /\ last'.op = "replace" => host' = host
        /\ modbytes' # modbytes => last'.op = "replace" ]_vars

C17_Witness ==
    /\ last.op = "call"
    /\ last.out = "Err"
    /\ superseded
    /\ modbytes.valid
    /\ modbytes = written
    /\ initialized(host)

(***************************************************************************)
(* C18: when a starter traps, call returns an error, not 0; the starters   *)
(* after it are not invoked and the entry point is neither looked up nor   *)
(* invoked.                                                                *)
(***************************************************************************)
TrappingStarters(b) == {k \in 1..Len(REQUIRED_STARTS) : b.starts[REQUIRED_STARTS[k]] = "trap"}

C18_StarterTrapIsError ==
    ( /\ CalledInitialized
      /\ OnlyRecognizedImports(modbytes)
      /\ TrappingStarters(modbytes) # {} )
    => LET first == CHOOSE k \in TrappingStarters(modbytes) :
                        \A j \in TrappingStarters(modbytes) : k <= j
       IN /\ last.out = "Err"
          /\ last.why = "start_trap"
          /\ Cardinality(At("start", REQUIRED_STARTS[first])) = 1
          /\ \A k \in (first + 1)..Len(REQUIRED_STARTS) :
                ~Happened("start", REQUIRED_STARTS[k])
          /\ ~Happened("get_func", GUEST_CALL)
          /\ ~Happened("entry", GUEST_CALL)

C18_Witness ==
    /\ CalledInitialized
    /\ OnlyRecognizedImports(modbytes)
    /\ modbytes.starts["_start"] = "trap"
    /\ modbytes.starts["wapc_init"] = "ok"
    /\ modbytes.entry = "trap"
    /\ last.out = "Err"
    /\ last.why = "start_trap"

(***************************************************************************)
(* C19: a call on a provider without a host handle fails before anything   *)
(* is compiled or bound: no instance, no guest code, no result.            *)
(***************************************************************************)
C19_UninitializedCallFailsFast ==
    (last.op = "call" /\ host = "None") =>
        /\ last.out = "panic"
        /\ last.why \in {"debug_assert", "unwrap_none"}
        /\ last.compiled = {}
        /\ last.imports = <<>>
        /\ ~last.instance
        /\ last.trace = <<>>

C19_Witness ==
    /\ last.op = "call"
    /\ host = "None"
    /\ ~debug_assertions
    /\ modbytes.valid
    /\ modbytes.entry = "one"
    /\ last.out = "panic"
    /\ last.why = "unwrap_none"

====
